---- MODULE Spec2Model ----
(***************************************************************************)
(* Model of package shelltoken (src/shelltoken.go): Parse scans a command  *)
(* line rune by rune, honouring single quotes, double quotes and           *)
(* backslashes, and extractEnvFromArgv splits the tokens into env and argv.*)
(*                                                                         *)
(* Runes are one-character strings, a Go string is a sequence of runes.    *)
(* The alphabet is ASCII, so byte offsets and rune offsets coincide and    *)
(* the byte read str[pos+1] of the lookahead is the next rune.             *)
(* A Go slice is a record [isNil, elems]: Parse tests token == nil and     *)
(* returns nil slices, so nil and empty are kept apart.                    *)
(***************************************************************************)
EXTENDS Integers, Sequences, FiniteSets, TLC

\* Longest input string that is explored.
MaxLen == 4

\* Runes of the explored inputs: a letter, the assignment sign, the four
\* separators, form feed (white space to strings.TrimSpace, no separator),
\* backslash, double quote, single quote.
Runes == {"a", "=", " ", "\t", "\n", "\r", "\f", "\\", "\"", "'"}

\* Longest command line over CommandRunes that is explored.
MaxCmdLen == 6

\* Runes of the longer command lines: words, assignments, quoted words.
CommandRunes == {"a", "=", " ", "'"}

\* the strings of length n over the runes A
StringsOver(A, n) == [1..n -> A]

\* s is one of the explored arguments of Parse
IsInput(s) ==
    \/ \E n \in 0..MaxLen : s \in StringsOver(Runes, n)
    \/ \E n \in 0..MaxCmdLen : s \in StringsOver(CommandRunes, n)

\* ---- Go slices ----------------------------------------------------------
NilSlice == [isNil |-> TRUE, elems |-> <<>>]

MakeSlice(s) == [isNil |-> FALSE, elems |-> s]

\* append(s, x): the result is never nil
append(s, x) == MakeSlice(Append(s.elems, x))

\* ---- constants of Parse -------------------------------------------------
\* separator := " \t\n\r"
separator == {" ", "\t", "\n", "\r"}

\* IsSpace narrowed to the runes of separator
IsSpace_SeparatorsOnly(c) == c \in {" ", "\t", "\n", "\r"}

\* the runes of the alphabet that unicode.IsSpace accepts
IsSpace(c) == c \in {" ", "\t", "\n", "\r", "\f"}

\* strings.TrimSpace(str)
RECURSIVE TrimLeft(_)
TrimLeft(s) ==
    IF s # <<>> /\ IsSpace(Head(s)) THEN TrimLeft(Tail(s)) ELSE s

RECURSIVE TrimRight(_)
TrimRight(s) ==
    IF s # <<>> /\ IsSpace(s[Len(s)]) THEN TrimRight(SubSeq(s, 1, Len(s) - 1))
    ELSE s

TrimSpace(s) == TrimRight(TrimLeft(s))

\* strings.Contains(s, "=")
ContainsEq(s) == \E i \in 1..Len(s) : s[i] = "="

\* ---- extractEnvFromArgv -------------------------------------------------
\* argv[lo:hi] with Go's offsets (from 0, hi excluded)
slice(a, lo, hi) == MakeSlice(SubSeq(a.elems, lo + 1, hi))

\* extractEnvFrom with the command dropped from args: argv[i+1:] for argv[i:]
RECURSIVE extractEnvFrom_SkipsCommand(_, _)
extractEnvFrom_SkipsCommand(a, i) ==
    IF i >= Len(a.elems)
    THEN [envs |-> NilSlice, args |-> NilSlice]
    ELSE IF ~ContainsEq(a.elems[i + 1])
    THEN [envs |-> slice(a, 0, i), args |-> slice(a, i + 1, Len(a.elems))]
    ELSE extractEnvFrom_SkipsCommand(a, i + 1)

\* the range loop of extractEnvFromArgv from offset i on; the bare return
\* after the loop gives the named results envs and args, both still nil
RECURSIVE extractEnvFrom(_, _)
extractEnvFrom(a, i) ==
    IF i >= Len(a.elems)
    THEN [envs |-> NilSlice, args |-> NilSlice]
    ELSE IF ~ContainsEq(a.elems[i + 1])
    THEN [envs |-> slice(a, 0, i), args |-> slice(a, i, Len(a.elems))]
    ELSE extractEnvFrom(a, i + 1)

extractEnvFromArgv(a) == extractEnvFrom(a, 0)

\* ---- state of one call of Parse ------------------------------------------
VARIABLES input, str, pos, token, inQuotes, inDbl, escaped, env, argv, err, pc

vars == <<input, str, pos, token, inQuotes, inDbl, escaped, env, argv, err, pc>>

\* the rune of the current iteration of the range loop
char == str[pos + 1]

InLoop == pc = "loop" /\ pos < Len(str)

\* the conditions of the cases of the switch, in the order of the source
IsBackslashCase == ~escaped /\ char = "\\"

IsDblQuoteCase == ~escaped /\ char = "\""

IsQuoteCase == ~escaped /\ char = "'"

\* the separator case without its test of escaped
IsSeparatorCase_IgnoresEscaped == char \in separator

IsSeparatorCase == ~escaped /\ char \in separator

\* the separator case with case inQuotes only
InQuoteMode_SingleOnly == inQuotes

\* the separator case with case inDbl only
InQuoteMode_DblOnly == inDbl

\* case inQuotes, inDbl: of the separator case
InQuoteMode == inQuotes \/ inDbl

\* the lookahead switch without case '\\'
NextIsEscapable_QuoteOnly == str[pos + 2] = "\""

\* case '"': case '\\': of the lookahead switch
NextIsEscapable == str[pos + 2] \in {"\"", "\\"}

\* addToken := func(char rune): clears escaped, appends to token
addToken(tok, c) == MakeSlice(Append(tok.elems, c))

\* startToken that leaves a nil token nil
startToken_LeavesNil(tok) == tok

\* if token == nil { token = make([]rune, 0) }
startToken(tok) == IF tok.isNil THEN MakeSlice(<<>>) ELSE tok

Init ==
    /\ IsInput(input)
    /\ str = input
    /\ pos = 0
    /\ token = NilSlice
    /\ inQuotes = FALSE
    /\ inDbl = FALSE
    /\ escaped = FALSE
    /\ env = NilSlice
    /\ argv = NilSlice
    /\ err = "nil"
    /\ pc = "trim"

\* str = strings.TrimSpace(str)
Trim ==
    /\ pc = "trim"
    /\ str' = TrimSpace(str)
    /\ pc' = "loop"
    /\ UNCHANGED <<input, pos, token, inQuotes, inDbl, escaped, env, argv, err>>

\* the lookahead str[pos+1] of the double-quote branch is inside the string
LookaheadInRange == pos + 1 < Len(str)

\* CaseBackslash whose single-quote branch leaves escaped set
CaseBackslash_EscapesInQuotes ==
    /\ InLoop
    /\ IsBackslashCase
    /\ IF inQuotes
       THEN /\ token' = addToken(token, char)
            /\ escaped' = TRUE
            /\ pos' = pos + 1
            /\ pc' = pc
       ELSE IF inDbl /\ ~LookaheadInRange
       THEN /\ token' = token
            /\ escaped' = TRUE
            /\ pos' = pos
            /\ pc' = "panic"
       ELSE IF inDbl /\ ~NextIsEscapable
       THEN /\ token' = addToken(token, char)
            /\ escaped' = FALSE
            /\ pos' = pos + 1
            /\ pc' = pc
       ELSE /\ token' = token
            /\ escaped' = TRUE
            /\ pos' = pos + 1
            /\ pc' = pc
    /\ UNCHANGED <<input, str, inQuotes, inDbl, env, argv, err>>

\* case !escaped && char == '\\'
CaseBackslash ==
    /\ InLoop
    /\ IsBackslashCase
    /\ IF inQuotes
       THEN \* backslashes are kept in single quotes
            /\ token' = addToken(token, char)
            /\ escaped' = FALSE
            /\ pos' = pos + 1
            /\ pc' = pc
       ELSE IF inDbl
       THEN IF Len(str) > pos
            THEN IF LookaheadInRange
                 THEN IF NextIsEscapable
                      THEN /\ token' = token
                           /\ escaped' = TRUE
                           /\ pos' = pos + 1
                           /\ pc' = pc
                      ELSE /\ token' = addToken(token, char)
                           /\ escaped' = FALSE
                           /\ pos' = pos + 1
                           /\ pc' = pc
                 ELSE \* index out of range: run-time panic
                      /\ token' = token
                      /\ escaped' = TRUE
                      /\ pos' = pos
                      /\ pc' = "panic"
            ELSE /\ token' = token
                 /\ escaped' = TRUE
                 /\ pos' = pos + 1
                 /\ pc' = pc
       ELSE /\ token' = token
            /\ escaped' = TRUE
            /\ pos' = pos + 1
            /\ pc' = pc
    /\ UNCHANGED <<input, str, inQuotes, inDbl, env, argv, err>>

\* case !escaped && char == '"'
CaseDblQuote ==
    /\ InLoop
    /\ ~IsBackslashCase /\ IsDblQuoteCase
    /\ IF ~inQuotes
       THEN /\ inDbl' = ~inDbl
            /\ token' = startToken(token)
            /\ escaped' = escaped
       ELSE /\ inDbl' = inDbl
            /\ token' = addToken(startToken(token), char)
            /\ escaped' = FALSE
    /\ pos' = pos + 1
    /\ UNCHANGED <<input, str, inQuotes, env, argv, err, pc>>

\* CaseQuote without the test of inDbl: the quote always toggles
CaseQuote_AlwaysToggles ==
    /\ InLoop
    /\ ~IsBackslashCase /\ ~IsDblQuoteCase /\ IsQuoteCase
    /\ inQuotes' = ~inQuotes
    /\ token' = startToken(token)
    /\ pos' = pos + 1
    /\ UNCHANGED <<input, str, inDbl, escaped, env, argv, err, pc>>

\* case !escaped && char == '\''
CaseQuote ==
    /\ InLoop
    /\ ~IsBackslashCase /\ ~IsDblQuoteCase /\ IsQuoteCase
    /\ IF ~inDbl
       THEN /\ inQuotes' = ~inQuotes
            /\ token' = startToken(token)
            /\ escaped' = escaped
       ELSE /\ inQuotes' = inQuotes
            /\ token' = addToken(startToken(token), char)
            /\ escaped' = FALSE
    /\ pos' = pos + 1
    /\ UNCHANGED <<input, str, inDbl, env, argv, err, pc>>

\* CaseSeparator without the test token != nil before the flush
CaseSeparator_FlushesNil ==
    /\ InLoop
    /\ ~IsBackslashCase /\ ~IsDblQuoteCase /\ ~IsQuoteCase /\ IsSeparatorCase
    /\ IF InQuoteMode
       THEN /\ token' = addToken(token, char)
            /\ escaped' = FALSE
            /\ argv' = argv
       ELSE /\ argv' = append(argv, token.elems)
            /\ token' = NilSlice
            /\ escaped' = escaped
    /\ pos' = pos + 1
    /\ UNCHANGED <<input, str, inQuotes, inDbl, env, err, pc>>

\* case !escaped && strings.ContainsRune(separator, char)
CaseSeparator ==
    /\ InLoop
    /\ ~IsBackslashCase /\ ~IsDblQuoteCase /\ ~IsQuoteCase /\ IsSeparatorCase
    /\ IF InQuoteMode
       THEN /\ token' = addToken(token, char)
            /\ escaped' = FALSE
            /\ argv' = argv
       ELSE IF ~token.isNil
       THEN /\ argv' = append(argv, token.elems)
            /\ token' = NilSlice
            /\ escaped' = escaped
       ELSE UNCHANGED <<token, escaped, argv>>
    /\ pos' = pos + 1
    /\ UNCHANGED <<input, str, inQuotes, inDbl, env, err, pc>>

\* CaseDefault with an addToken that does not clear escaped
CaseDefault_KeepsEscaped ==
    /\ InLoop
    /\ ~IsBackslashCase /\ ~IsDblQuoteCase /\ ~IsQuoteCase /\ ~IsSeparatorCase
    /\ token' = addToken(token, char)
    /\ pos' = pos + 1
    /\ UNCHANGED <<input, str, inQuotes, inDbl, escaped, env, argv, err, pc>>

\* default
CaseDefault ==
    /\ InLoop
    /\ ~IsBackslashCase /\ ~IsDblQuoteCase /\ ~IsQuoteCase /\ ~IsSeparatorCase
    /\ token' = addToken(token, char)
    /\ escaped' = FALSE
    /\ pos' = pos + 1
    /\ UNCHANGED <<input, str, inQuotes, inDbl, env, argv, err, pc>>

\* the token that is appended after the loop
lastToken(tok) == IF tok.isNil THEN <<>> ELSE tok.elems

\* AppendLast without the branch that appends the empty token
AppendLast_NoEmptyToken ==
    /\ pc = "loop" /\ pos = Len(str)
    /\ argv' = IF token.isNil THEN argv ELSE append(argv, token.elems)
    /\ pc' = "check"
    /\ UNCHANGED <<input, str, pos, token, inQuotes, inDbl, escaped, env, err>>

\* after the loop: append the empty token or the last token
AppendLast ==
    /\ pc = "loop" /\ pos = Len(str)
    /\ argv' = append(argv, lastToken(token))
    /\ pc' = "check"
    /\ UNCHANGED <<input, str, pos, token, inQuotes, inDbl, escaped, env, err>>

\* Unbalanced without the case inDbl
Unbalanced_SingleOnly == inQuotes

\* switch { case inQuotes: ... case inDbl: ... }
Unbalanced == inQuotes \/ inDbl

\* return nil, nil, ErrUnbalancedQuotes
ReturnUnbalanced ==
    /\ pc = "check"
    /\ Unbalanced
    /\ env' = NilSlice
    /\ argv' = NilSlice
    /\ err' = "ErrUnbalancedQuotes"
    /\ pc' = "return"
    /\ UNCHANGED <<input, str, pos, token, inQuotes, inDbl, escaped>>

\* env, argv = extractEnvFromArgv(argv); return env, argv, nil
ReturnSplit ==
    /\ pc = "check"
    /\ ~Unbalanced
    /\ env' = extractEnvFromArgv(argv).envs
    /\ argv' = extractEnvFromArgv(argv).args
    /\ err' = "nil"
    /\ pc' = "return"
    /\ UNCHANGED <<input, str, pos, token, inQuotes, inDbl, escaped>>

Next ==
    \/ Trim
    \/ CaseBackslash
    \/ CaseDblQuote
    \/ CaseQuote
    \/ CaseSeparator
    \/ CaseDefault
    \/ AppendLast
    \/ ReturnUnbalanced
    \/ ReturnSplit

Spec == Init /\ [][Next]_vars

\* Longest input of the calls that are compared with their variants.
MaxVariedLen == 5

\* Largest number of separators inserted at one place.
MaxInsert == 2

\* Runes of the inputs that are compared with their variants.
VariedRunes == {"a", " ", "\t", "\\", "\"", "'"}

\* a call of Parse on one of the inputs that are compared with variants
InitVaried ==
    /\ \E n \in 0..MaxVariedLen : input \in StringsOver(VariedRunes, n)
    /\ str = input
    /\ pos = 0
    /\ token = NilSlice
    /\ inQuotes = FALSE
    /\ inDbl = FALSE
    /\ escaped = FALSE
    /\ env = NilSlice
    /\ argv = NilSlice
    /\ err = "nil"
    /\ pc = "trim"

SpecVaried == InitVaried /\ [][Next]_vars

TypeOK ==
    /\ pos \in 0..Len(str)
    /\ pc \in {"trim", "loop", "check", "return", "panic"}
    /\ err \in {"nil", "ErrUnbalancedQuotes"}

\* ---- Parse as a function of its argument --------------------------------
\* the locals of Parse before the loop
scanStart ==
    [token |-> NilSlice, inQuotes |-> FALSE, inDbl |-> FALSE,
     escaped |-> FALSE, argv |-> NilSlice, panic |-> FALSE]

\* one iteration of the range loop: the rune at offset p of s, from locals st
scanRune(st, s, p) ==
    LET c == s[p + 1]
        added == [st EXCEPT !.token = addToken(st.token, c), !.escaped = FALSE]
        started == [st EXCEPT !.token = startToken(st.token)]
    IN
    IF ~st.escaped /\ c = "\\"
    THEN IF st.inQuotes THEN added
         ELSE IF st.inDbl
         THEN IF p + 1 < Len(s)
              THEN IF s[p + 2] \in {"\"", "\\"}
                   THEN [st EXCEPT !.escaped = TRUE]
                   ELSE added
              ELSE [st EXCEPT !.escaped = TRUE, !.panic = TRUE]
         ELSE [st EXCEPT !.escaped = TRUE]
    ELSE IF ~st.escaped /\ c = "\""
    THEN IF ~st.inQuotes
         THEN [started EXCEPT !.inDbl = ~st.inDbl]
         ELSE [started EXCEPT !.token = addToken(started.token, c),
                              !.escaped = FALSE]
    ELSE IF ~st.escaped /\ c = "'"
    THEN IF ~st.inDbl
         THEN [started EXCEPT !.inQuotes = ~st.inQuotes]
         ELSE [started EXCEPT !.token = addToken(started.token, c),
                              !.escaped = FALSE]
    ELSE IF ~st.escaped /\ c \in separator
    THEN IF st.inQuotes \/ st.inDbl THEN added
         ELSE IF ~st.token.isNil
         THEN [st EXCEPT !.argv = append(st.argv, st.token.elems),
                         !.token = NilSlice]
         ELSE st
    ELSE added

\* the iterations of the loop from offset p up to offset n, or to a panic
RECURSIVE scanTo(_, _, _, _)
scanTo(st, s, p, n) ==
    IF st.panic \/ p >= n THEN st
    ELSE scanTo(scanRune(st, s, p), s, p + 1, n)

\* the locals of Parse after the first n iterations on the trimmed string s
scanPrefix(s, n) == scanTo(scanStart, s, 0, n)

\* what a call ends in
Panicked == [panic |-> TRUE, env |-> NilSlice, argv |-> NilSlice, err |-> "nil"]

Result(e, a, r) == [panic |-> FALSE, env |-> e, argv |-> a, err |-> r]

\* Parse(s)
ParseOf(s) ==
    LET t == TrimSpace(s)
        st == scanPrefix(t, Len(t))
        tokens == append(st.argv, lastToken(st.token))
    IN
    IF st.panic THEN Panicked
    ELSE IF st.inQuotes \/ st.inDbl
    THEN Result(NilSlice, NilSlice, "ErrUnbalancedQuotes")
    ELSE Result(extractEnvFromArgv(tokens).envs,
                extractEnvFromArgv(tokens).args, "nil")

\* the locals of the call in progress
Locals ==
    [token |-> token, inQuotes |-> inQuotes, inDbl |-> inDbl,
     escaped |-> escaped, argv |-> argv, panic |-> pc = "panic"]

\* what the call in progress has ended in
Outcome == IF pc = "panic" THEN Panicked ELSE Result(env, argv, err)

Ended == pc \in {"return", "panic"}

\* the steps of the call compute scanPrefix and ParseOf
ScanAgrees ==
    /\ pc = "loop" => Locals = scanPrefix(str, pos)
    /\ pc = "panic" => Locals = scanPrefix(str, pos + 1)
    /\ Ended => Outcome = ParseOf(input)

\* ---- properties ----------------------------------------------------------
Returned == pc = "return"

ReturnedOk == pc = "return" /\ err = "nil"

\* the step that hands the token sequence (argv at "check") to the splitter
SplitStep == pc = "check" /\ pc' = "return" /\ err' = "nil"

AllContainEq(t) == \A i \in 1..Len(t) : ContainsEq(t[i])

\* C1: whenever Parse returns without error, the returned argv has at least
\* one element, also when every token contains "=".
C1_ArgvNeverEmpty == ReturnedOk => Len(argv.elems) >= 1

\* C2: on success env followed by argv is the whole token sequence of the
\* scan, nothing lost, duplicated or reordered.
C2_EnvArgvPartition ==
    [][SplitStep => env'.elems \o argv'.elems = argv.elems]_vars

C4_UnbalancedExactly ==
    /\ err = "ErrUnbalancedQuotes" =>
            /\ Returned
            /\ pos = Len(str)
            /\ inQuotes \/ inDbl
            /\ env.isNil /\ argv.isNil
    /\ Returned =>
            /\ pos = Len(str)
            /\ (inQuotes \/ inDbl) => err = "ErrUnbalancedQuotes"

\* an open double quote at the end of the input
C4_Witness == Returned /\ err = "ErrUnbalancedQuotes" /\ inDbl /\ pos >= 2

\* C5: Parse never ends in any other way than returning (env, argv) or the
\* UnbalancedQuotes error: the lookahead never reads past the input.
C5_NoOtherFailure == pc # "panic"

\* C6: with balanced quotes the token sequence handed to the splitter has
\* at least one element.
C6_TokensNonEmpty == (pc = "check" /\ ~inQuotes /\ ~inDbl) => Len(argv.elems) >= 1

\* a scan of a non-empty string that ends with no token started
C6_Witness ==
    /\ pc = "check" /\ ~inQuotes /\ ~inDbl
    /\ Len(str) >= 1 /\ token.isNil
    /\ argv.elems = << <<>> >>

WhitespaceOnly(s) == \A i \in 1..Len(s) : s[i] \in {" ", "\t", "\n", "\r"}

\* C7: for the empty input and every input of separators only, the token
\* sequence is one empty string and Parse returns no error, an empty env
\* and argv = [""].
C7_WhitespaceOnly ==
    WhitespaceOnly(input) =>
        /\ pc = "check" => argv.elems = << <<>> >>
        /\ Returned => err = "nil" /\ env.elems = <<>> /\ argv.elems = << <<>> >>
        /\ pc # "panic"

\* an input of several different separators has been parsed
C7_Witness ==
    /\ Returned
    /\ Len(input) >= 2 /\ WhitespaceOnly(input) /\ input[1] # input[2]
    /\ argv.elems = << <<>> >>

\* the suffix of s of length n
Suffix(s, n) == SubSeq(s, Len(s) - n + 1, Len(s))

\* C8: inside double quotes an unescaped backslash with a next rune is
\* dropped exactly when that rune is '"' or '\'; the next rune is then
\* appended literally, closing no region and starting no escape. Before any
\* other rune the backslash is appended and the next rune is handled
\* unescaped.
C8_DblQuoteBackslash ==
    [][/\ (InLoop /\ inDbl /\ ~escaped /\ char = "\\" /\ pos + 1 < Len(str)) =>
            /\ pc' = "loop" /\ pos' = pos + 1
            /\ inDbl' /\ ~inQuotes' /\ argv' = argv
            /\ IF str[pos + 2] \in {"\"", "\\"}
               THEN token' = token /\ escaped'
               ELSE /\ token' = MakeSlice(Append(token.elems, "\\"))
                    /\ ~escaped'
       /\ (InLoop /\ inDbl /\ escaped) =>
            /\ char \in {"\"", "\\"}
            /\ pos >= 1 /\ str[pos] = "\\"
            /\ pc' = "loop" /\ pos' = pos + 1
            /\ token' = MakeSlice(Append(token.elems, char))
            /\ inDbl' /\ ~inQuotes' /\ ~escaped' /\ argv' = argv]_vars

\* "a\"\\b a" style: both escapes and a kept backslash in one region
C8_Witness ==
    /\ pc = "loop" /\ inDbl /\ ~escaped
    /\ pos >= 3 /\ str[pos - 1] = "\\" /\ str[pos] \in {"\"", "\\"}
    /\ Suffix(token.elems, 1) = <<str[pos]>>
    /\ Len(token.elems) = pos - 2

\* the offset of the quote that opened the single-quote region open at pos
RegionStart == CHOOSE j \in 1..pos : str[j] = "'" /\ \A k \in (j + 1)..pos : str[k] # "'"

\* C9: inside single quotes every rune but the single quote is appended
\* verbatim (backslashes kept, double quotes and separators ordinary), and
\* the text that a region 'X' adds to the token is X.
C9_SingleQuoteVerbatim ==
    [][(InLoop /\ inQuotes) =>
            /\ ~escaped /\ ~inDbl /\ ~token.isNil
            /\ pc' = "loop" /\ pos' = pos + 1 /\ argv' = argv
            /\ ~inDbl' /\ ~escaped'
            /\ IF char # "'"
               THEN inQuotes' /\ token' = MakeSlice(Append(token.elems, char))
               ELSE /\ ~inQuotes' /\ token' = token
                    /\ Suffix(token.elems, pos - RegionStart)
                            = SubSeq(str, RegionStart + 1, pos)]_vars

\* a region with a backslash and a separator or double quote has been closed
C9_Witness ==
    /\ pc = "loop" /\ ~inQuotes /\ pos = 4
    /\ str[1] = "'" /\ str[2] = "\\" /\ str[3] \in {" ", "\""} /\ str[4] = "'"
    /\ token.elems = <<str[2], str[3]>>

\* C10: outside quotes an unescaped backslash is not appended, and the rune
\* after it is appended literally whatever it is: no split, no quote mode
\* opened or closed.
C10_OutsideBackslash ==
    [][/\ (InLoop /\ ~inQuotes /\ ~inDbl /\ ~escaped /\ char = "\\") =>
            /\ pc' = "loop" /\ pos' = pos + 1
            /\ token' = token /\ argv' = argv
            /\ ~inQuotes' /\ ~inDbl' /\ escaped'
       /\ (pc = "loop" /\ ~inQuotes /\ ~inDbl /\ escaped) =>
            /\ pos >= 1 /\ str[pos] = "\\"
       /\ (InLoop /\ ~inQuotes /\ ~inDbl /\ escaped) =>
            /\ pc' = "loop" /\ pos' = pos + 1
            /\ token' = MakeSlice(Append(token.elems, char))
            /\ argv' = argv
            /\ ~inQuotes' /\ ~inDbl' /\ ~escaped']_vars

\* an escaped separator or quote has been appended to a token outside quotes
C10_Witness ==
    /\ pc = "loop" /\ ~inQuotes /\ ~inDbl /\ ~escaped
    /\ pos >= 3 /\ str[pos - 1] = "\\" /\ str[pos] \in {" ", "'", "\"", "\\"}
    /\ str[pos - 2] = "a"
    /\ token.elems = <<"a", str[pos]>>
    /\ argv.isNil

\* C11: while a quote mode is active a separator is appended to the token
\* and the emitted tokens stay as they are.
C11_QuotedSeparator ==
    [][(InLoop /\ (inQuotes \/ inDbl) /\ char \in separator) =>
            /\ pc' = "loop" /\ pos' = pos + 1
            /\ token' = MakeSlice(Append(token.elems, char))
            /\ argv' = argv
            /\ inQuotes' = inQuotes /\ inDbl' = inDbl]_vars

\* a separator has been appended inside double quotes after a rune
C11_Witness ==
    /\ pc = "loop" /\ inDbl /\ pos >= 3
    /\ str[pos] \in separator
    /\ Len(token.elems) >= 2 /\ Suffix(token.elems, 1) = <<str[pos]>>
    /\ argv.isNil

\* C13: an unescaped backslash inside double quotes that is the last rune of
\* the trimmed input is appended to the token and the scan goes on to its
\* normal end.
C13_LookaheadPastEnd ==
    [][(InLoop /\ inDbl /\ ~escaped /\ char = "\\" /\ pos + 1 = Len(str)) =>
            /\ pc' = "loop" /\ pos' = pos + 1
            /\ token' = MakeSlice(Append(token.elems, "\\"))]_vars

\* C14: the empty token is appended after the loop only when no token was
\* started during the whole scan, so it is then the only token.
C14_EmptyTokenSole == (pc = "check" /\ token.isNil) => argv.elems = << <<>> >>

\* C15: inQuotes and inDbl are never both set; an unescaped quote met in the
\* other quote mode is appended and toggles neither flag.
C15_QuoteModesExclusive ==
    [][/\ ~(inQuotes /\ inDbl)
       /\ ~(inQuotes' /\ inDbl')
       /\ (InLoop /\ ~escaped /\ inQuotes /\ char = "\"") =>
            /\ token' = MakeSlice(Append(token.elems, char))
            /\ inQuotes' /\ ~inDbl' /\ argv' = argv
       /\ (InLoop /\ ~escaped /\ inDbl /\ char = "'") =>
            /\ token' = MakeSlice(Append(token.elems, char))
            /\ inDbl' /\ ~inQuotes' /\ argv' = argv]_vars

\* a single quote has been appended inside double quotes
C15_Witness ==
    /\ pc = "loop" /\ inDbl /\ ~inQuotes /\ pos = 2
    /\ str[1] = "\"" /\ str[2] = "'"
    /\ token.elems = <<"'">>

\* C16: escaped is set at the start of a step only after a backslash that
\* was not appended; that step appends its rune and clears escaped, so
\* escaped is never set at the start of two steps in a row.
C16_EscapedOneShot ==
    [][/\ (~escaped /\ escaped') =>
            /\ InLoop /\ char = "\\"
            /\ token' = token
       /\ (InLoop /\ escaped) =>
            /\ pos >= 1 /\ str[pos] = "\\"
            /\ pc' = "loop" /\ pos' = pos + 1
            /\ token' = MakeSlice(Append(token.elems, char))
            /\ ~escaped']_vars

\* an escaped backslash has been appended and escaped is cleared again
C16_Witness ==
    /\ pc = "loop" /\ ~escaped /\ ~inQuotes /\ ~inDbl /\ pos = 2
    /\ str[1] = "\\" /\ str[2] = "\\"
    /\ token.elems = <<"\\">>

\* C19: no step taken inside single quotes leaves escaped set, so a single
\* quote after a backslash closes the region: 'a\' is balanced and gives
\* the one token a\.
C19_NoEscapeInSingleQuotes ==
    [][/\ (InLoop /\ inQuotes) => ~escaped'
       /\ inQuotes' => ~escaped'
       /\ (pc' = "return" /\ input = <<"'", "a", "\\", "'">>) =>
            /\ err' = "nil"
            /\ env'.elems = <<>>
            /\ argv'.elems = << <<"a", "\\">> >>]_vars

\* the quote after the backslash has closed the region
C19_Witness ==
    /\ pc = "loop" /\ pos = 4 /\ ~inQuotes /\ ~escaped
    /\ str = <<"'", "a", "\\", "'">>
    /\ token.elems = <<"a", "\\">>

\* out is s without its longest prefix and its longest suffix of runes of W
TrimmedBy(W, s, out) ==
    \E i \in 1..(Len(s) + 1), j \in 0..Len(s) :
        /\ out = SubSeq(s, i, j)
        /\ \A k \in 1..(i - 1) : s[k] \in W
        /\ \A k \in (j + 1)..Len(s) : s[k] \in W
        /\ IF i <= j THEN s[i] \notin W /\ s[j] \notin W
           ELSE \A k \in 1..Len(s) : s[k] \in W

\* C18 as stated: Parse trims the runes of the separator set and no others,
\* so a leading or trailing form feed is kept.
C18_TrimsSeparatorsOnly ==
    [][pc = "trim" => TrimmedBy({" ", "\t", "\n", "\r"}, input, str')]_vars

\* C18 as amended: Parse trims the Unicode white space of strings.TrimSpace,
\* which among the explored runes is the separator set and form feed; other
\* leading and trailing runes are kept, and a form feed inside the scanned
\* string is appended to the token like any other rune.
C18_TrimsUnicodeSpace ==
    [][/\ pc = "trim" => TrimmedBy({" ", "\t", "\n", "\r", "\f"}, input, str')
       /\ (InLoop /\ char = "\f") =>
            /\ token' = MakeSlice(Append(token.elems, "\f"))
            /\ argv' = argv]_vars

\* a leading form feed has been trimmed and an inner one has been kept
C18_Witness ==
    /\ Returned /\ err = "nil"
    /\ Len(input) >= 4
    /\ input[1] = "\f" /\ str = Tail(input)
    /\ \E k \in 2..(Len(str) - 1) : str[k] = "\f"
    /\ argv.elems = <<str>>

\* s with the runes w inserted after its first k runes
Insert(s, k, w) == SubSeq(s, 1, k) \o w \o SubSeq(s, k + 1, Len(s))

\* the offsets (from 1) in the trimmed string t of the separators that the
\* scan meets unquoted and unescaped
UnquotedSeparators(t) ==
    {i \in 1..Len(t) :
        /\ t[i] \in {" ", "\t", "\n", "\r"}
        /\ LET st == scanPrefix(t, i - 1) IN
           ~st.panic /\ ~st.inQuotes /\ ~st.inDbl /\ ~st.escaped}

\* the runs of 1..MaxInsert separators
SeparatorRuns == UNION {[1..k -> {" ", "\t", "\n", "\r"}] : k \in 1..MaxInsert}

\* s with separators inserted before or after one of its unquoted
\* separators, or with that separator replaced by another one
Variants(s) ==
    LET lead == Len(s) - Len(TrimLeft(s))
        at == {lead + i : i \in UnquotedSeparators(TrimSpace(s))}
    IN  {Insert(s, k, w) : k \in at, w \in SeparatorRuns}
            \cup {Insert(s, k - 1, w) : k \in at, w \in SeparatorRuns}
            \cup {[s EXCEPT ![k] = c] : k \in at, c \in {" ", "\t", "\n", "\r"}}

\* C12: more separators next to an unquoted, unescaped separator, or another
\* separator in its place, leave the result of Parse unchanged; an unquoted
\* separator emits a token only if one was started, and an empty one only
\* after a quote.
C12_WhitespaceCollapsing ==
    [][/\ (InLoop /\ ~inQuotes /\ ~inDbl /\ ~escaped /\ char \in separator) =>
            /\ pc' = "loop" /\ token'.isNil
            /\ ~inQuotes' /\ ~inDbl' /\ ~escaped'
            /\ argv' = IF token.isNil THEN argv
                       ELSE MakeSlice(Append(argv.elems, token.elems))
            /\ (~token.isNil /\ token.elems = <<>>) => str[pos] \in {"'", "\""}
       /\ Ended' => \A v \in Variants(input') : ParseOf(v) = Outcome']_vars

\* two tokens with a run of two different separators between them
C12_Witness ==
    /\ ReturnedOk
    /\ Len(argv.elems) = 2
    /\ \E i \in UnquotedSeparators(str) :
            /\ i + 1 \in UnquotedSeparators(str)
            /\ str[i] # str[i + 1]

\* the offsets i of the trimmed string t at which an empty quote pair stands
\* alone: at the start or after an unquoted separator, and at the end or
\* before a separator
LoneEmptyPairs(t) ==
    {i \in 1..(Len(t) - 1) :
        /\ t[i] \in {"'", "\""} /\ t[i + 1] = t[i]
        /\ i = 1 \/ (i - 1) \in UnquotedSeparators(t)
        /\ i + 1 = Len(t) \/ t[i + 2] \in {" ", "\t", "\n", "\r"}}

\* C17: an unescaped quote outside the other quote mode makes the token
\* present without adding a rune, and an empty quote pair that stands alone
\* yields an empty token at its place in the token sequence: a '' a gives
\* three tokens, the second empty.
C17_EmptyQuotePair ==
    [][/\ (InLoop /\ ~escaped /\
                ((char = "\"" /\ ~inQuotes) \/ (char = "'" /\ ~inDbl))) =>
            /\ ~token'.isNil
            /\ token'.elems = token.elems
       /\ pc' = "check" =>
            \A i \in LoneEmptyPairs(str') :
                LET n == Len(scanPrefix(str', i - 1).argv.elems) IN
                /\ Len(argv'.elems) >= n + 1
                /\ argv'.elems[n + 1] = <<>>
       /\ (pc' = "return" /\ input = <<"a", " ", "'", "'", " ", "a">>) =>
            /\ err' = "nil"
            /\ env'.elems = <<>>
            /\ argv'.elems = << <<"a">>, <<>>, <<"a">> >>]_vars

\* an empty token between two words has been returned
C17_Witness ==
    /\ ReturnedOk
    /\ LoneEmptyPairs(str) # {}
    /\ Len(argv.elems) = 3
    /\ argv.elems[1] # <<>> /\ argv.elems[2] = <<>> /\ argv.elems[3] # <<>>

\* the offset of the first single quote of s after offset 1, 0 if none
ClosingQuote(s) ==
    IF \E j \in 2..Len(s) : s[j] = "'"
    THEN CHOOSE j \in 2..Len(s) : s[j] = "'" /\ \A k \in 2..(j - 1) : s[k] # "'"
    ELSE 0

\* s is 't1' 't2' ... 'tn' with n >= 1, no ti containing a single quote
RECURSIVE IsWrapped(_)
IsWrapped(s) ==
    /\ Len(s) >= 2 /\ s[1] = "'" /\ ClosingQuote(s) # 0
    /\ LET rest == SubSeq(s, ClosingQuote(s) + 1, Len(s)) IN
       \/ rest = <<>>
       \/ rest[1] = " " /\ IsWrapped(Tail(rest))

\* the t1..tn of a wrapped s
RECURSIVE Unwrap(_)
Unwrap(s) ==
    LET j == ClosingQuote(s)
        rest == SubSeq(s, j + 1, Len(s))
    IN  <<SubSeq(s, 2, j - 1)>> \o (IF rest = <<>> THEN <<>> ELSE Unwrap(Tail(rest)))

\* C20: on the input 't1' 't2' ... 'tn' Parse succeeds and env followed by
\* argv is t1..tn.
C20_QuoteRoundTrip ==
    IsWrapped(input) =>
        /\ pc # "panic"
        /\ Returned => err = "nil" /\ env.elems \o argv.elems = Unwrap(input)

\* the tokens of the scan of 't1' 't2' ... 'tn', before the split, are t1..tn
WrappedTokens ==
    (IsWrapped(input) /\ pc = "check") =>
        ~inQuotes /\ ~inDbl /\ argv.elems = Unwrap(input)
====
